---- MODULE Spec2Model ----
(***************************************************************************)
(* Credit account ledger of Grupo01-Finanzas/API-Rest.                     *)
(*                                                                         *)
(* Money is held in integer cents (the code uses float64); time is a day   *)
(* number counted from 2024-01-01 (day 0), every call being made at the    *)
(* same time of day, so that comparing two instants compares their days.   *)
(* The repository holds several overlapping versions of the engine; each   *)
(* posting entry point is modelled from its own source:                    *)
(*   Repo_*            creditAccountRepository (credit_account_repository) *)
(*   Service_*         creditAccountService    (unnamed/part_023)          *)
(*   PurchaseService_* purchaseService         (unnamed/part_019)          *)
(*   PurchaseSvc2_*    purchaseService         (service/purchase_service)  *)
(*   TransactionService_* / TransactionRepo_*  (transaction_service.go,    *)
(*                     the transactionRepository of user_repository.go)    *)
(***************************************************************************)
EXTENDS Integers, Sequences, FiniteSets, TLC

\* ------------------------------------------------------------------------
\* Bounds of the model
\* ------------------------------------------------------------------------
\* last day number the clock may reach
MaxNow == 85
\* cap on the number of stored transactions
MaxTxns == 2
\* cap on the number of stored late fee records
MaxFees == 1
\* cap on the number of installment batches a failing purchase may leave
MaxBatches == 2
MaxAccounts == 4
MaxRequests == 2
\* edits of stored transactions stop once a balance is further than this
\* from zero
MaxDrift == 100000

\* ------------------------------------------------------------------------
\* Calendar: Go's time.Date / Time.AddDate over day numbers
\* ------------------------------------------------------------------------
EpochYear == 2024

IsLeap(y) == (y % 4 = 0 /\ y % 100 # 0) \/ y % 400 = 0

DaysInMonthOf(y, m) ==
    IF m = 2 THEN (IF IsLeap(y) THEN 29 ELSE 28)
    ELSE IF m \in {4, 6, 9, 11} THEN 30 ELSE 31

DaysInYear(y) == IF IsLeap(y) THEN 366 ELSE 365

RECURSIVE DaysBeforeYear(_)
DaysBeforeYear(y) ==
    IF y <= EpochYear THEN 0 ELSE DaysBeforeYear(y - 1) + DaysInYear(y - 1)

RECURSIVE DaysBeforeMonth(_, _)
DaysBeforeMonth(y, m) ==
    IF m <= 1 THEN 0 ELSE DaysBeforeMonth(y, m - 1) + DaysInMonthOf(y, m - 1)

\* time.Date(y, m, d, 0,0,0,0, UTC): a month above 12 rolls into the next
\* years and a day beyond the month's end rolls into the next month.
Date(y, m, d) ==
    LET yy == y + ((m - 1) \div 12)
        mm == ((m - 1) % 12) + 1
    IN  DaysBeforeYear(yy) + DaysBeforeMonth(yy, mm) + (d - 1)

RECURSIVE YearOfFrom(_, _)
YearOfFrom(n, y) ==
    IF n < DaysBeforeYear(y + 1) THEN y ELSE YearOfFrom(n, y + 1)

RECURSIVE MonthOfFrom(_, _, _)
MonthOfFrom(n, y, m) ==
    IF n < DaysBeforeYear(y) + DaysBeforeMonth(y, m + 1) THEN m
    ELSE MonthOfFrom(n, y, m + 1)

Year(n) == YearOfFrom(n, EpochYear)
Month(n) == MonthOfFrom(n, Year(n), 1)
Day(n) == n - (DaysBeforeYear(Year(n)) + DaysBeforeMonth(Year(n), Month(n))) + 1

\* t.AddDate(0, months, 0)
AddDate(n, months) == Date(Year(n), Month(n) + months, Day(n))

\* ------------------------------------------------------------------------
\* Configuration of the modelled installation
\* ------------------------------------------------------------------------
\* credit account ids (gorm primary keys, assigned 1, 2, ...)
AccountIDs == {1, 2}
\* user ids: user 1 is the establishment's admin, users 2 and 3 are clients
UserIDs == {1, 2, 3}
\* the user each account's client belongs to (client.user_id)
ClientUserID == (1 :> 2) @@ (2 :> 3)

\* defaults getOrCreateCreditAccount gives a new account, in cents
DefaultCreditLimit == 100000
DefaultMonthlyDueDate == 15
DefaultInterestRate == 10
\* the day the accounts are created: 2024-01-10
StartDay == 9

\* posting amounts of the requests, in cents (validated gt=0 by the binding)
Amounts == {40000, 70000}
\* days the clock advances between two calls
TickSteps == {38}

\* the finer clock of the interest specification
InterestTickSteps == {19}

\* the establishment's late fee rules, in table order
LateFeeRules ==
    << [DaysOverdueMin |-> 1, DaysOverdueMax |-> 30,
        FeeType |-> "PERCENTAGE", FeeValue |-> 5] >>

NoRule == 0

NewAccount(creditType, ruleID) ==
    [ CreditLimit             |-> DefaultCreditLimit,
      CurrentBalance          |-> 0,
      MonthlyDueDate          |-> DefaultMonthlyDueDate,
      InterestRate            |-> DefaultInterestRate,
      InterestType            |-> "NOMINAL",
      CreditType              |-> creditType,
      GracePeriod             |-> 0,
      IsBlocked               |-> FALSE,
      LastInterestAccrualDate |-> StartDay,
      LateFeeRuleID           |-> ruleID ]

\* ------------------------------------------------------------------------
\* State
\* ------------------------------------------------------------------------
VARIABLES
    now,           \* time.Now(), as a day number
    accounts,      \* credit_accounts table: id -> row
    transactions,  \* transactions table, in insertion order
    lateFees,      \* late_fees table, in insertion order
    installments,  \* installments table, in insertion order
    last,          \* the call made by the last step, with its outcome
    interestCalls, \* per account, the day of the last ApplyInterest call
    procs,         \* the requests in flight of a concurrent batch
    batchBal,      \* per account, the balance when the batch began
    creditAccountOwners, \* credit_accounts rows' client_id and
                         \* establishment_id, in insertion order
    creditRequests \* credit_requests table, in insertion order

vars == << now, accounts, transactions, lateFees, installments, last,
           interestCalls, procs, batchBal, creditAccountOwners,
           creditRequests >>

db == << accounts, transactions, lateFees, installments >>

Procs == {1, 2}
Never == 0 - 1

IdleProc ==
    [ pc |-> "idle", entry |-> "none", acct |-> 0, type |-> "none",
      amt |-> 0, snap |-> << >>, result |-> "none" ]

Init ==
    /\ now = StartDay
    /\ accounts = (1 :> NewAccount("SHORT_TERM", NoRule))
                  @@ (2 :> NewAccount("LONG_TERM", 1))
    /\ transactions = << >>
    /\ lateFees = << >>
    /\ installments = << >>
    /\ last = [op |-> "init", acct |-> 0, amt |-> 0, result |-> "none",
               balBefore |-> 0, wasBlocked |-> FALSE]
    /\ interestCalls = [a \in AccountIDs |-> Never]
    /\ procs = [p \in Procs |-> IdleProc]
    /\ batchBal = [a \in AccountIDs |-> 0]
    /\ creditAccountOwners =
            << [ClientID |-> ClientUserID[1], EstablishmentID |-> 1],
               [ClientID |-> ClientUserID[2], EstablishmentID |-> 1] >>
    /\ creditRequests = << >>

\* the call a step makes, its outcome, and the balance and blocked flag the
\* account had when the call was made
Call(op, a, amount, res) ==
    last' = [op |-> op, acct |-> a, amt |-> amount, result |-> res,
             balBefore  |-> IF a \in AccountIDs
                            THEN accounts[a].CurrentBalance ELSE 0,
             wasBlocked |-> IF a \in AccountIDs
                            THEN accounts[a].IsBlocked ELSE FALSE]

\* a transactions row; a row created with no payment method, code or status
\* is stored with the column defaults
Transaction(a, type, amount) ==
    [ CreditAccountID |-> a, TransactionType |-> type, Amount |-> amount,
      TransactionDate |-> now, PaymentMethod |-> "", PaymentCode |-> "",
      PaymentStatus |-> "PENDING" ]

\* ------------------------------------------------------------------------
\* creditAccountRepository (credit_account_repository.go): every posting
\* runs in one database transaction that holds the account's row lock
\* (SELECT ... FOR UPDATE) from its read to its commit.
\* ------------------------------------------------------------------------
Repo_PurchaseResult(acct, amount) ==
    IF acct.IsBlocked THEN "blocked"
    ELSE IF acct.CurrentBalance + amount > acct.CreditLimit THEN "limit"
    ELSE "ok"

\* the rows a successful ProcessPurchase commits
Repo_PurchaseCommit(a, amount) ==
    /\ transactions' = Append(transactions, Transaction(a, "PURCHASE", amount))
    /\ accounts' = [accounts EXCEPT
            ![a].CurrentBalance = accounts[a].CurrentBalance + amount]

Repo_ProcessPurchase(a, amount) ==
    LET acct == accounts[a]
        res  == Repo_PurchaseResult(acct, amount)
    IN  /\ res = "ok" => Len(transactions) < MaxTxns
        /\ IF res = "ok"
           THEN Repo_PurchaseCommit(a, amount)
           ELSE UNCHANGED << accounts, transactions >>
        /\ Call("Repo_ProcessPurchase", a, amount, res)
        /\ UNCHANGED << now, lateFees, installments, interestCalls, procs,
                        batchBal,
                    creditAccountOwners, creditRequests >>

Repo_PaymentExceeds_NoCheck(acct, amount) == FALSE

Repo_PaymentExceeds(acct, amount) == amount > acct.CurrentBalance

Repo_Unblock_Never(acct) == acct

Repo_Unblock(acct) ==
    IF acct.IsBlocked /\ acct.CurrentBalance <= 0
    THEN [acct EXCEPT !.IsBlocked = FALSE]
    ELSE acct

Repo_PaymentResult(acct, amount) ==
    IF Repo_PaymentExceeds(acct, amount) THEN "exceeds" ELSE "ok"

\* the rows a successful ProcessPayment commits
Repo_PaymentCommit(a, amount) ==
    /\ transactions' = Append(transactions, Transaction(a, "PAYMENT", amount))
    /\ accounts' = [accounts EXCEPT ![a] = Repo_Unblock(
            [accounts[a] EXCEPT
                !.CurrentBalance = accounts[a].CurrentBalance - amount])]

Repo_ProcessPayment(a, amount) ==
    LET acct == accounts[a]
        res  == Repo_PaymentResult(acct, amount)
    IN  /\ res = "ok" => Len(transactions) < MaxTxns
        /\ IF res = "ok"
           THEN Repo_PaymentCommit(a, amount)
           ELSE UNCHANGED << accounts, transactions >>
        /\ Call("Repo_ProcessPayment", a, amount, res)
        /\ UNCHANGED << now, lateFees, installments, interestCalls, procs,
                        batchBal,
                    creditAccountOwners, creditRequests >>

\* isAccountOverdue: today.After(this month's due date) && balance > 0; the
\* due date is midnight, so the due day itself is already after it.
isAccountOverdue(acct) ==
    /\ now >= Date(Year(now), Month(now), acct.MonthlyDueDate)
    /\ acct.CurrentBalance > 0

\* the accounts whose client is the given user, First() taking the lowest id
AccountsOfUser(userID) == {a \in AccountIDs : ClientUserID[a] = userID}

FirstAccountOfUser(userID) ==
    CHOOSE a \in AccountsOfUser(userID) : \A b \in AccountsOfUser(userID) : a <= b

Repo_GetOverdueBalance(userID) ==
    IF AccountsOfUser(userID) = {} THEN 0
    ELSE IF ~isAccountOverdue(accounts[FirstAccountOfUser(userID)]) THEN 0
    ELSE accounts[FirstAccountOfUser(userID)].CurrentBalance

\* creditAccountService.ProcessPurchase (part_023): the overdue check, given
\* the credit account id where GetOverdueBalance takes a user id, then the
\* repository's posting.
Service_ProcessPurchase(a, amount) ==
    LET acct == accounts[a]
        res  == IF Repo_GetOverdueBalance(a) > 0 THEN "overdue"
                ELSE Repo_PurchaseResult(acct, amount)
    IN  /\ res = "ok" => Len(transactions) < MaxTxns
        /\ IF res = "ok"
           THEN Repo_PurchaseCommit(a, amount)
           ELSE UNCHANGED << accounts, transactions >>
        /\ Call("Service_ProcessPurchase", a, amount, res)
        /\ UNCHANGED << now, lateFees, installments, interestCalls, procs,
                        batchBal,
                    creditAccountOwners, creditRequests >>

\* ------------------------------------------------------------------------
\* Interest and late fees (credit_account_repository.go)
\* ------------------------------------------------------------------------
\* ApplyInterest's early return: no balance, or not yet a month since the
\* last accrual
Repo_InterestNotDue_BalanceOnly(acct) ==
    acct.CurrentBalance = 0

Repo_InterestNotDue(acct) ==
    \/ acct.CurrentBalance = 0
    \/ now < AddDate(acct.LastInterestAccrualDate, 1)

\* CalculateInterest for SHORT_TERM credit at a nominal rate:
\* balance * (rate / 100) * (days / 365), cut to whole cents
Repo_CalculateInterest(acct) ==
    IF acct.CurrentBalance = 0 THEN 0
    ELSE (acct.CurrentBalance * acct.InterestRate
            * (now - acct.LastInterestAccrualDate)) \div 36500

Repo_AccrueInterest_KeepDate(acct, interest) ==
    [acct EXCEPT !.CurrentBalance = acct.CurrentBalance + interest]

\* the account as ApplyInterest saves it
Repo_AccrueInterest(acct, interest) ==
    [acct EXCEPT !.CurrentBalance = acct.CurrentBalance + interest,
                 !.LastInterestAccrualDate = now]

\* ApplyInterest. For LONG_TERM credit CalculateInterest calls
\* r.installmentRepo, which NewCreditAccountRepository leaves nil: the call
\* panics and the database transaction is rolled back.
Repo_ApplyInterest(a) ==
    LET acct     == accounts[a]
        res      == IF Repo_InterestNotDue(acct) THEN "noop"
                    ELSE IF acct.CreditType = "LONG_TERM" THEN "panic"
                    ELSE "ok"
        interest == Repo_CalculateInterest(acct)
    IN  /\ res = "ok" => Len(transactions) < MaxTxns
        /\ IF res = "ok"
           THEN /\ transactions' = Append(transactions,
                        Transaction(a, "INTEREST_ACCRUAL", interest))
                /\ accounts' = [accounts EXCEPT
                        ![a] = Repo_AccrueInterest(acct, interest)]
           ELSE UNCHANGED << accounts, transactions >>
        /\ interestCalls' = [interestCalls EXCEPT ![a] = now]
        /\ Call("Repo_ApplyInterest", a, 0, res)
        /\ UNCHANGED << now, lateFees, installments, procs, batchBal,
                    creditAccountOwners, creditRequests >>

calculateDaysOverdue(monthlyDueDate) ==
    LET dueDate == Date(Year(now), Month(now), monthlyDueDate)
    IN  IF now < dueDate THEN 0 ELSE now - dueDate

RuleApplies(rule, daysOverdue) ==
    daysOverdue >= rule.DaysOverdueMin /\ daysOverdue <= rule.DaysOverdueMax

\* indices of the establishment's rules ApplyLateFee's loop would stop at
ApplicableRules(daysOverdue) ==
    {i \in 1..Len(LateFeeRules) : RuleApplies(LateFeeRules[i], daysOverdue)}

\* the rule ApplyLateFee selects, or NoRule
Repo_SelectLateFeeRule(acct, daysOverdue) ==
    IF acct.LateFeeRuleID # NoRule THEN acct.LateFeeRuleID
    ELSE IF ApplicableRules(daysOverdue) = {} THEN NoRule
    ELSE CHOOSE i \in ApplicableRules(daysOverdue) :
            \A j \in ApplicableRules(daysOverdue) : i <= j

calculateLateFee(acct, rule, daysOverdue) ==
    IF daysOverdue < rule.DaysOverdueMin \/ daysOverdue > rule.DaysOverdueMax
    THEN 0
    ELSE IF rule.FeeType = "PERCENTAGE"
         THEN (rule.FeeValue * acct.CurrentBalance) \div 100
         ELSE rule.FeeValue

Repo_ApplyLateFee(a) ==
    LET acct   == accounts[a]
        days   == calculateDaysOverdue(acct.MonthlyDueDate)
        ruleID == Repo_SelectLateFeeRule(acct, days)
        res    == IF days <= 0 THEN "noop"
                  ELSE IF ruleID = NoRule THEN "norule"
                  ELSE "ok"
        fee    == calculateLateFee(acct, LateFeeRules[ruleID], days)
    IN  /\ res = "ok" => Len(lateFees) < MaxFees
        /\ IF res = "ok"
           THEN /\ lateFees' = Append(lateFees,
                        [CreditAccountID |-> a, Amount |-> fee,
                         AppliedDate |-> now])
                /\ accounts' = [accounts EXCEPT
                        ![a].CurrentBalance = acct.CurrentBalance + fee]
           ELSE UNCHANGED << accounts, lateFees >>
        /\ Call("Repo_ApplyLateFee", a, 0, res)
        /\ UNCHANGED << now, transactions, installments, interestCalls,
                        procs, batchBal,
                    creditAccountOwners, creditRequests >>

\* ------------------------------------------------------------------------
\* creditAccountRepository.Update
\* ------------------------------------------------------------------------
\* the update requests issued: a field left out has its zero value
UpdateRequests ==
    { [ CreditLimit |-> 0, MonthlyDueDate |-> 0, InterestRate |-> 0,
        InterestType |-> "", CreditType |-> "", GracePeriod |-> 0,
        IsBlocked |-> b ] : b \in BOOLEAN }

Repo_Update(a, req) ==
    LET acct == accounts[a]
        a1 == IF req.CreditLimit > 0
              THEN [acct EXCEPT !.CreditLimit = req.CreditLimit] ELSE acct
        a2 == IF req.MonthlyDueDate > 0
              THEN [a1 EXCEPT !.MonthlyDueDate = req.MonthlyDueDate] ELSE a1
        a3 == IF req.InterestRate > 0
              THEN [a2 EXCEPT !.InterestRate = req.InterestRate] ELSE a2
        a4 == IF req.InterestType # ""
              THEN [a3 EXCEPT !.InterestType = req.InterestType] ELSE a3
        a5 == IF req.CreditType # ""
              THEN [a4 EXCEPT !.CreditType = req.CreditType] ELSE a4
        a6 == IF req.GracePeriod >= 0
              THEN [a5 EXCEPT !.GracePeriod = req.GracePeriod] ELSE a5
        a7 == [a6 EXCEPT !.IsBlocked = req.IsBlocked]
    IN  /\ accounts' = [accounts EXCEPT ![a] = a7]
        /\ Call("Repo_Update", a, 0, "ok")
        /\ UNCHANGED << now, transactions, lateFees, installments,
                        interestCalls, procs, batchBal,
                    creditAccountOwners, creditRequests >>

\* ------------------------------------------------------------------------
\* purchaseService (part_019): the account is read outside the database
\* transaction and without a lock; the transaction inserts the PURCHASE
\* row, saves the account as it was read with the amount added, and creates
\* the installments when the request's credit type is LONG_TERM.
\* ------------------------------------------------------------------------
CreditDurationMonths == 12

calculateNumberOfInstallments(acct) ==
    IF CreditDurationMonths - acct.GracePeriod < 1 THEN 1
    ELSE CreditDurationMonths - acct.GracePeriod

\* Fixed-point arithmetic for the float64 formula: rates and powers are
\* kept in units of 1/1000000 and products are taken in two halves so that
\* no intermediate value leaves 32 bits.
FixedOne == 1000000

FixedSplit == 1000

\* a * b / FixedOne
MulFixed(a, b) ==
    (((a \div FixedSplit) * b) \div (FixedOne \div FixedSplit))
        + (((a % FixedSplit) * b) \div FixedOne)

\* the nominal periodic rate InterestRate / 1200
PeriodicRate(acct) == (acct.InterestRate * FixedOne) \div 1200

\* math.Pow(1 + i, n)
RECURSIVE PowFixed(_, _)
PowFixed(rate, n) ==
    IF n = 0 THEN FixedOne
    ELSE LET prev == PowFixed(rate, n - 1)
         IN  prev + MulFixed(prev, rate)

\* the float64 NaN that 0 / 0 yields; no amount equals it
NaN == 0 - 1

\* the annuity formula amount * (i * (1+i)^n) / ((1+i)^n - 1), in cents.
\* With g = (1+i)^n - 1 the quotient is amount * i / g + amount * i, the
\* form evaluated here; for i = 0 the code divides 0 by 0.
calculateInstallmentAmount(acct, amount, n) ==
    LET i   == PeriodicRate(acct)
        pow == PowFixed(i, n)
    IN  IF pow - FixedOne = 0 THEN NaN
        ELSE ((amount * i) \div (pow - FixedOne)) + ((amount * i) \div FixedOne)

calculateFirstInstallmentDueDate(acct) ==
    LET firstDueDate == AddDate(now, acct.GracePeriod)
    IN  Date(Year(firstDueDate), Month(firstDueDate), acct.MonthlyDueDate)

Installment(a, dueDate, amount) ==
    [ CreditAccountID |-> a, DueDate |-> dueDate, Amount |-> amount,
      Status |-> "PENDING" ]

PurchaseService_createInstallments(a, acct, amount) ==
    LET n == calculateNumberOfInstallments(acct)
    IN  [ i \in 1..n |->
            Installment(a,
                AddDate(calculateFirstInstallmentDueDate(acct), i - 1),
                calculateInstallmentAmount(acct, amount, n)) ]

\* steps 2 to 4 of ProcessPurchase, on the account as read
PurchaseService_Result(userID, snap, amount) ==
    IF Repo_GetOverdueBalance(userID) > 0 THEN "overdue"
    ELSE IF snap.CurrentBalance + amount > snap.CreditLimit THEN "limit"
    ELSE "ok"

\* step 5: the database transaction, writing the account as read
PurchaseService_Commit(a, snap, creditType, amount) ==
    /\ transactions' = Append(transactions, Transaction(a, "PURCHASE", amount))
    /\ accounts' = [accounts EXCEPT
            ![a] = [snap EXCEPT !.CurrentBalance = snap.CurrentBalance + amount]]
    /\ installments' =
            IF creditType = "LONG_TERM"
            THEN installments \o PurchaseService_createInstallments(a, snap, amount)
            ELSE installments

PurchaseService_ProcessPurchase(userID, creditType, amount) ==
    /\ AccountsOfUser(userID) # {}
    /\ LET a   == FirstAccountOfUser(userID)
           res == PurchaseService_Result(userID, accounts[a], amount)
       IN  /\ res = "ok" => Len(transactions) < MaxTxns
           /\ IF res = "ok"
              THEN PurchaseService_Commit(a, accounts[a], creditType, amount)
              ELSE UNCHANGED << accounts, transactions, installments >>
           /\ Call("PurchaseService_ProcessPurchase", a, amount, res)
    /\ UNCHANGED << now, lateFees, interestCalls, procs, batchBal,
                    creditAccountOwners, creditRequests >>

\* ------------------------------------------------------------------------
\* purchaseService (service/purchase_service.go): the checks, then the
\* installments (through the installment repository, outside any database
\* transaction), then creditAccountRepo.ProcessPurchaseTransaction.
\* ------------------------------------------------------------------------
calculateNextDueDate(monthlyDueDate) ==
    LET dueDate == Date(Year(now), Month(now), monthlyDueDate)
    IN  IF dueDate <= now THEN AddDate(dueDate, 1) ELSE dueDate

PurchaseSvc2_createInstallments(a, acct, purchaseAmount) ==
    IF acct.CreditType # "LONG_TERM" THEN << >>
    ELSE [ i \in 1..12 |->
            Installment(a,
                AddDate(calculateNextDueDate(acct.MonthlyDueDate), i - 1),
                purchaseAmount \div 12) ]

PurchaseSvc2_Result(snap, amount) ==
    IF snap.IsBlocked THEN "blocked"
    ELSE IF snap.CurrentBalance + amount > snap.CreditLimit THEN "limit"
    ELSE "ok"

\* creditAccountRepo.ProcessPurchaseTransaction: the account it saves
ProcessPurchaseTransaction(snap, amount) ==
    [snap EXCEPT !.CurrentBalance = snap.CurrentBalance + amount]

PurchaseSvc2_ProcessPurchase(userID, creditType, amount) ==
    /\ AccountsOfUser(userID) # {}
    /\ LET a   == FirstAccountOfUser(userID)
           res == PurchaseSvc2_Result(accounts[a], amount)
       IN  /\ res = "ok" => Len(transactions) < MaxTxns
           /\ IF res = "ok"
              THEN /\ installments' =
                        IF creditType = "LONG_TERM"
                        THEN installments \o
                             PurchaseSvc2_createInstallments(a, accounts[a], amount)
                        ELSE installments
                   /\ transactions' =
                        Append(transactions, Transaction(a, "PURCHASE", amount))
                   /\ accounts' = [accounts EXCEPT
                        ![a] = ProcessPurchaseTransaction(accounts[a], amount)]
              ELSE UNCHANGED << accounts, transactions, installments >>
           /\ Call("PurchaseSvc2_ProcessPurchase", a, amount, res)
    /\ UNCHANGED << now, lateFees, interestCalls, procs, batchBal,
                    creditAccountOwners, creditRequests >>

\* ------------------------------------------------------------------------
\* A purchase whose database work fails. The steps that can return an error
\* are the calls the code checks with "if err != nil".
\* ------------------------------------------------------------------------
\* part_019: every step runs on tx inside s.db.Transaction, whose error
\* return rolls all of them back
PurchaseService_FailingSteps ==
    {"transaction", "balance", "installments", "client"}

PurchaseService_ProcessPurchaseFailing(userID, creditType, amount, step) ==
    /\ AccountsOfUser(userID) # {}
    /\ step \in PurchaseService_FailingSteps
    /\ step = "installments" => creditType = "LONG_TERM"
    /\ LET a == FirstAccountOfUser(userID)
       IN  /\ PurchaseService_Result(userID, accounts[a], amount) = "ok"
           /\ Call("PurchaseService_ProcessPurchase", a, amount, "dberror")
    /\ UNCHANGED << now, accounts, transactions, lateFees, installments,
                    interestCalls, procs, batchBal,
                    creditAccountOwners, creditRequests >>

\* purchase_service.go: createInstallments goes through the installment
\* repository on its own connection (r.db.Create) before
\* ProcessPurchaseTransaction is called; when that call returns an error
\* the installments are already stored.
PurchaseSvc2_FailingSteps == {"installments", "transaction"}

PurchaseSvc2_StoredBeforeFailure(a, acct, creditType, amount, step) ==
    IF step = "transaction" /\ creditType = "LONG_TERM"
    THEN PurchaseSvc2_createInstallments(a, acct, amount)
    ELSE << >>

PurchaseSvc2_ProcessPurchaseFailing(userID, creditType, amount, step) ==
    /\ AccountsOfUser(userID) # {}
    /\ step \in PurchaseSvc2_FailingSteps
    /\ step = "installments" => creditType = "LONG_TERM"
    /\ Len(installments) < MaxBatches * 12
    /\ LET a == FirstAccountOfUser(userID)
       IN  /\ PurchaseSvc2_Result(accounts[a], amount) = "ok"
           /\ installments' = installments \o
                PurchaseSvc2_StoredBeforeFailure(a, accounts[a], creditType,
                                                 amount, step)
           /\ Call("PurchaseSvc2_ProcessPurchase", a, amount, "dberror")
    /\ UNCHANGED << now, accounts, transactions, lateFees, interestCalls,
                    procs, batchBal,
                    creditAccountOwners, creditRequests >>

\* ------------------------------------------------------------------------
\* transactionService.CreateTransaction and the transactionRepository of
\* user_repository.go: the account is read by the service, outside the
\* database transaction and without a lock; the repository inserts the row
\* and saves the account as it was read, with the balance changed.
\* ------------------------------------------------------------------------
TransactionRepo_PaymentExceeds(snap, amount) == amount > snap.CurrentBalance

TransactionRepo_Result(snap, type, amount) ==
    IF amount <= 0 THEN "invalid"
    ELSE IF type = "PAYMENT" /\ TransactionRepo_PaymentExceeds(snap, amount)
         THEN "exceeds"
    ELSE "ok"

TransactionRepo_Unblock(acct) ==
    IF acct.IsBlocked /\ acct.CurrentBalance <= 0
    THEN [acct EXCEPT !.IsBlocked = FALSE]
    ELSE acct

\* the account CreateTransaction saves
TransactionRepo_CreateTransaction(snap, type, amount) ==
    IF type = "PURCHASE"
    THEN [snap EXCEPT !.CurrentBalance = snap.CurrentBalance + amount]
    ELSE TransactionRepo_Unblock(
            [snap EXCEPT !.CurrentBalance = snap.CurrentBalance - amount])

\* the rows a successful CreateTransaction commits, given the account read
TransactionRepo_Commit(a, snap, type, amount) ==
    /\ transactions' = Append(transactions, Transaction(a, type, amount))
    /\ accounts' = [accounts EXCEPT
            ![a] = TransactionRepo_CreateTransaction(snap, type, amount)]

TransactionService_CreateTransaction(a, type, amount) ==
    LET res == TransactionRepo_Result(accounts[a], type, amount)
    IN  /\ res = "ok" => Len(transactions) < MaxTxns
        /\ IF res = "ok"
           THEN TransactionRepo_Commit(a, accounts[a], type, amount)
           ELSE UNCHANGED << accounts, transactions >>
        /\ Call(IF type = "PURCHASE" THEN "CreateTransaction_Purchase"
                ELSE "CreateTransaction_Payment", a, amount, res)
        /\ UNCHANGED << now, lateFees, installments, interestCalls, procs,
                        batchBal,
                    creditAccountOwners, creditRequests >>

\* ------------------------------------------------------------------------
\* CalculateDueDate (credit_account_service.go, purchase_service.go and
\* part_023 carry the same body). today is time.Now(); the due dates are
\* midnights, so DueDate.After(today) is a later day.
\* ------------------------------------------------------------------------
\* time.Date(nextYear, nextMonth, account.MonthlyDueDate, 0, 0, 0, 0, UTC)
NextMonthDueDate(acct) ==
    LET nextMonth == Month(now) + 1
        nextYear  == Year(now)
    IN  IF nextMonth > 12
        THEN Date(nextYear + 1, 1, acct.MonthlyDueDate)
        ELSE Date(nextYear, nextMonth, acct.MonthlyDueDate)

\* installmentRepo.GetInstallmentsByCreditAccountID: the account's rows, in
\* the order they were inserted
GetInstallmentsByCreditAccountID(a) ==
    SelectSeq(installments, LAMBDA inst : inst.CreditAccountID = a)

\* the loop over the installments: the first PENDING one due after today,
\* in stored order; Never when the loop ends without one
RECURSIVE FirstPendingAfterToday(_, _)
FirstPendingAfterToday(insts, k) ==
    IF k > Len(insts) THEN Never
    ELSE IF insts[k].Status = "PENDING" /\ insts[k].DueDate > now
         THEN insts[k].DueDate
         ELSE FirstPendingAfterToday(insts, k + 1)

CalculateDueDate_Value(a) ==
    LET account == accounts[a]
        found   == FirstPendingAfterToday(GetInstallmentsByCreditAccountID(a), 1)
    IN  IF account.CreditType = "SHORT_TERM" THEN NextMonthDueDate(account)
        ELSE IF found # Never THEN found
        ELSE NextMonthDueDate(account)

\* a call of CalculateDueDate; the date it returns is recorded in last.value
CalculateDueDate(a) ==
    /\ last' = [op |-> "CalculateDueDate", acct |-> a, amt |-> 0,
                result |-> "ok",
                balBefore  |-> accounts[a].CurrentBalance,
                wasBlocked |-> accounts[a].IsBlocked,
                value |-> CalculateDueDate_Value(a)]
    /\ UNCHANGED << now, accounts, transactions, lateFees, installments,
                    interestCalls, procs, batchBal,
                    creditAccountOwners, creditRequests >>

\* a call of calculateInstallmentAmount on an account with the given yearly
\* nominal rate; the amount it returns is recorded in last.value
CalculateInstallmentAmount(amount, rate, n) ==
    /\ last' = [op |-> "calculateInstallmentAmount", acct |-> 0,
                amt |-> amount, result |-> "ok", balBefore |-> 0,
                wasBlocked |-> FALSE, rate |-> rate, n |-> n,
                value |-> calculateInstallmentAmount(
                    [NewAccount("LONG_TERM", NoRule) EXCEPT !.InterestRate = rate],
                    amount, n)]
    /\ UNCHANGED << now, accounts, transactions, lateFees, installments,
                    interestCalls, procs, batchBal,
                    creditAccountOwners, creditRequests >>

\* ------------------------------------------------------------------------
\* Account statements (purchase_service.go GetClientAccountStatement). The
\* repository package carries two bodies of GetBalanceBeforeDate, one in
\* transaction_repository.go and one in user_repository.go.
\* ------------------------------------------------------------------------
\* the zero time.Time
ZeroTime == Never

\* transaction_repository.go: SUM(CASE WHEN transaction_type = 'Payment'
\* THEN amount ELSE -amount END) over the rows created before beforeDate.
\* Whether the literal 'Payment' equals the stored "PAYMENT" depends on the
\* database's collation (caseInsensitive). The sum over no rows reads 0.
RECURSIVE TransactionRepo_GetBalanceBeforeDate(_, _, _, _)
TransactionRepo_GetBalanceBeforeDate(a, beforeDate, caseInsensitive, n) ==
    IF n = 0 THEN 0
    ELSE TransactionRepo_GetBalanceBeforeDate(a, beforeDate, caseInsensitive, n - 1)
         + (IF /\ transactions[n].CreditAccountID = a
               /\ transactions[n].TransactionDate < beforeDate
            THEN (IF transactions[n].TransactionType = "PAYMENT" /\ caseInsensitive
                  THEN transactions[n].Amount
                  ELSE 0 - transactions[n].Amount)
            ELSE 0)

\* user_repository.go: SUM(CASE WHEN transaction_type = enums.Payment THEN
\* -amount ELSE amount END) over the rows dated before beforeDate
RECURSIVE UserRepoFile_GetBalanceBeforeDate(_, _, _)
UserRepoFile_GetBalanceBeforeDate(a, beforeDate, n) ==
    IF n = 0 THEN 0
    ELSE UserRepoFile_GetBalanceBeforeDate(a, beforeDate, n - 1)
         + (IF /\ transactions[n].CreditAccountID = a
               /\ transactions[n].TransactionDate < beforeDate
            THEN (IF transactions[n].TransactionType = "PAYMENT"
                  THEN 0 - transactions[n].Amount
                  ELSE transactions[n].Amount)
            ELSE 0)

\* the two files that define the transaction repository
StatementRepos == {"transaction_repository.go", "user_repository.go"}

GetClientAccountStatement_StartingBalance(a, startDate, repo, caseInsensitive) ==
    IF startDate = ZeroTime THEN 0
    ELSE IF repo = "transaction_repository.go"
         THEN TransactionRepo_GetBalanceBeforeDate(a, startDate, caseInsensitive,
                                                   Len(transactions))
         ELSE UserRepoFile_GetBalanceBeforeDate(a, startDate, Len(transactions))

\* a statement request; its starting balance is recorded in last.value
GetClientAccountStatement(a, startDate, repo, caseInsensitive) ==
    /\ last' = [op |-> "GetClientAccountStatement", acct |-> a, amt |-> 0,
                result |-> "ok",
                balBefore  |-> accounts[a].CurrentBalance,
                wasBlocked |-> accounts[a].IsBlocked,
                startDate |-> startDate, repo |-> repo,
                value |-> GetClientAccountStatement_StartingBalance(
                              a, startDate, repo, caseInsensitive)]
    /\ UNCHANGED << now, accounts, transactions, lateFees, installments,
                    interestCalls, procs, batchBal,
                    creditAccountOwners, creditRequests >>

\* the clock; a recorded ApplyInterest call is forgotten once a month old
Tick(d) ==
    /\ now + d <= MaxNow
    /\ now' = now + d
    /\ interestCalls' = [a \in AccountIDs |->
            IF interestCalls[a] # Never /\ now + d >= AddDate(interestCalls[a], 1)
            THEN Never ELSE interestCalls[a]]
    /\ Call("Tick", 0, d, "ok")
    /\ UNCHANGED << accounts, transactions, lateFees, installments, procs,
                    batchBal,
                    creditAccountOwners, creditRequests >>


\* ------------------------------------------------------------------------
\* Two requests in flight on one account. A repository posting holds the
\* row lock from its read to its commit, so it is one step. The service
\* postings read the account first (one step) and commit later (a second
\* step), writing the whole row as it was read.
\* ------------------------------------------------------------------------
LockedEntries == {"Repo_ProcessPurchase", "Repo_ProcessPayment"}

BatchRequests ==
    { [entry |-> "Repo_ProcessPurchase", type |-> "PURCHASE"],
      [entry |-> "Repo_ProcessPayment", type |-> "PAYMENT"],
      [entry |-> "PurchaseService_ProcessPurchase", type |-> "PURCHASE"],
      [entry |-> "TransactionService_CreateTransaction", type |-> "PURCHASE"],
      [entry |-> "TransactionService_CreateTransaction", type |-> "PAYMENT"] }

AllIdle == \A p \in Procs : procs[p].pc = "idle"

Request(a, req, amount) ==
    [ pc |-> "issued", entry |-> req.entry, acct |-> a, type |-> req.type,
      amt |-> amount, snap |-> << >>, result |-> "none" ]

StartBatch(a, r1, m1, r2, m2) ==
    /\ AllIdle
    /\ procs' = (1 :> Request(a, r1, m1)) @@ (2 :> Request(a, r2, m2))
    /\ batchBal' = [b \in AccountIDs |-> accounts[b].CurrentBalance]
    /\ Call("StartBatch", a, 0, "none")
    /\ UNCHANGED << now, accounts, transactions, lateFees, installments,
                    interestCalls,
                    creditAccountOwners, creditRequests >>

Finish(p, res) == procs' = [procs EXCEPT ![p].pc = "done", ![p].result = res]

\* a repository posting, from SELECT ... FOR UPDATE to commit
Locked_Execute(p) ==
    LET r   == procs[p]
        res == IF r.type = "PURCHASE"
               THEN Repo_PurchaseResult(accounts[r.acct], r.amt)
               ELSE Repo_PaymentResult(accounts[r.acct], r.amt)
    IN  /\ r.pc = "issued"
        /\ r.entry \in LockedEntries
        /\ IF res # "ok" THEN UNCHANGED << accounts, transactions >>
           ELSE IF r.type = "PURCHASE" THEN Repo_PurchaseCommit(r.acct, r.amt)
           ELSE Repo_PaymentCommit(r.acct, r.amt)
        /\ Finish(p, res)
        /\ Call("Locked_Execute", r.acct, r.amt, res)
        /\ UNCHANGED << now, lateFees, installments, interestCalls, batchBal,
                    creditAccountOwners, creditRequests >>

\* a service posting reads the account and runs its checks
Unlocked_Read(p) ==
    LET r    == procs[p]
        snap == accounts[r.acct]
        res  == IF r.entry = "PurchaseService_ProcessPurchase"
                THEN PurchaseService_Result(ClientUserID[r.acct], snap, r.amt)
                ELSE TransactionRepo_Result(snap, r.type, r.amt)
    IN  /\ r.pc = "issued"
        /\ r.entry \notin LockedEntries
        /\ IF res = "ok"
           THEN procs' = [procs EXCEPT ![p].pc = "read", ![p].snap = snap]
           ELSE Finish(p, res)
        /\ Call("Unlocked_Read", r.acct, r.amt, res)
        /\ UNCHANGED << now, accounts, transactions, lateFees, installments,
                        interestCalls, batchBal,
                    creditAccountOwners, creditRequests >>

\* a service posting commits its database transaction
Unlocked_Write(p) ==
    LET r == procs[p]
    IN  /\ r.pc = "read"
        /\ IF r.entry = "PurchaseService_ProcessPurchase"
           THEN PurchaseService_Commit(r.acct, r.snap, r.snap.CreditType, r.amt)
           ELSE /\ TransactionRepo_Commit(r.acct, r.snap, r.type, r.amt)
                /\ UNCHANGED installments
        /\ Finish(p, "ok")
        /\ Call("Unlocked_Write", r.acct, r.amt, "ok")
        /\ UNCHANGED << now, lateFees, interestCalls, batchBal,
                    creditAccountOwners, creditRequests >>

\* ------------------------------------------------------------------------
\* Opening credit accounts (part_023 CreateCreditAccount, CreateCreditRequest
\* and ApproveCreditRequest; credit_account_repository.go). The rows opened
\* here are followed by their owner columns only. No unique index covers
\* (client_id, establishment_id).
\* ------------------------------------------------------------------------
EstablishmentIDs == {1, 2}

Owner(clientID, establishmentID) ==
    [ClientID |-> clientID, EstablishmentID |-> establishmentID]

ExistsByClientAndEstablishment(clientID, establishmentID) ==
    \E i \in 1..Len(creditAccountOwners) :
        creditAccountOwners[i] = Owner(clientID, establishmentID)

\* CreateCreditAccount up to its step 3: the existence check, made on the
\* database outside any transaction
CreateCreditAccount_Check(p, clientID, establishmentID) ==
    LET res == IF ExistsByClientAndEstablishment(clientID, establishmentID)
               THEN "exists" ELSE "ok"
    IN  /\ \A q \in Procs : procs[q].pc \in {"idle", "checked"}
        /\ procs[p].pc = "idle"
        /\ procs' = IF res = "ok"
                    THEN [procs EXCEPT ![p] =
                            [IdleProc EXCEPT !.pc = "checked",
                                             !.entry = "CreateCreditAccount",
                                             !.snap = Owner(clientID, establishmentID)]]
                    ELSE procs
        /\ Call("CreateCreditAccount_Check", 0, 0, res)
        /\ UNCHANGED << now, accounts, transactions, lateFees, installments,
                        interestCalls, batchBal, creditAccountOwners,
                        creditRequests >>

\* CreateCreditAccount's steps 4 and 5: creditAccountRepo.Create
CreateCreditAccount_Create(p) ==
    /\ procs[p].pc = "checked"
    /\ procs[p].entry = "CreateCreditAccount"
    /\ Len(creditAccountOwners) < MaxAccounts
    /\ creditAccountOwners' = Append(creditAccountOwners, procs[p].snap)
    /\ procs' = [procs EXCEPT ![p] = IdleProc]
    /\ Call("CreateCreditAccount_Create", 0, 0, "ok")
    /\ UNCHANGED << now, accounts, transactions, lateFees, installments,
                    interestCalls, batchBal, creditRequests >>

CreditRequest(clientID, establishmentID) ==
    [ClientID |-> clientID, EstablishmentID |-> establishmentID,
     Status |-> "PENDING"]

CreateCreditRequest(clientID, establishmentID) ==
    LET res == IF ExistsByClientAndEstablishment(clientID, establishmentID)
               THEN "exists" ELSE "ok"
    IN  /\ res = "ok" => Len(creditRequests) < MaxRequests
        /\ creditRequests' =
            IF res = "ok"
            THEN Append(creditRequests, CreditRequest(clientID, establishmentID))
            ELSE creditRequests
        /\ Call("CreateCreditRequest", 0, 0, res)
        /\ UNCHANGED << now, accounts, transactions, lateFees, installments,
                        interestCalls, procs, batchBal, creditAccountOwners >>

\* the service's status check, then the repository's transaction: the
\* account row is created and the request is saved as approved
ApproveCreditRequest(creditRequestID) ==
    LET creditRequest == creditRequests[creditRequestID]
        res == IF creditRequest.Status # "PENDING" THEN "already" ELSE "ok"
    IN  /\ creditRequestID \in 1..Len(creditRequests)
        /\ res = "ok" => Len(creditAccountOwners) < MaxAccounts
        /\ IF res = "ok"
           THEN /\ creditAccountOwners' =
                    Append(creditAccountOwners,
                           Owner(creditRequest.ClientID,
                                 creditRequest.EstablishmentID))
                /\ creditRequests' =
                    [creditRequests EXCEPT ![creditRequestID].Status = "APPROVED"]
           ELSE UNCHANGED << creditAccountOwners, creditRequests >>
        /\ Call("ApproveCreditRequest", 0, 0, res)
        /\ UNCHANGED << now, accounts, transactions, lateFees, installments,
                        interestCalls, procs, batchBal >>

\* ------------------------------------------------------------------------
\* transactionService.UpdateTransaction and DeleteTransaction with the
\* transactionRepository of user_repository.go. A transaction's id is its
\* place in the table. The service reads the transaction and the account,
\* the repository changes the account it was handed and saves both.
\* ------------------------------------------------------------------------
\* the balance DeleteTransaction saves
TransactionRepo_DeleteTransaction(creditAccount, transaction) ==
    IF transaction.TransactionType = "PURCHASE"
    THEN [creditAccount EXCEPT
            !.CurrentBalance = creditAccount.CurrentBalance - transaction.Amount]
    ELSE [creditAccount EXCEPT
            !.CurrentBalance = creditAccount.CurrentBalance + transaction.Amount]

TransactionService_DeleteTransaction(id) ==
    LET transaction == transactions[id]
        a   == transaction.CreditAccountID
        res == IF transaction.TransactionType \in {"PURCHASE", "PAYMENT"}
               THEN "ok" ELSE "invalid"
    IN  /\ id \in 1..Len(transactions)
        /\ IF res = "ok"
           THEN /\ transactions' = SubSeq(transactions, 1, id - 1)
                        \o SubSeq(transactions, id + 1, Len(transactions))
                /\ accounts' = [accounts EXCEPT
                        ![a] = TransactionRepo_DeleteTransaction(accounts[a],
                                                                 transaction)]
           ELSE UNCHANGED << accounts, transactions >>
        /\ Call("DeleteTransaction", a, transaction.Amount, res)
        /\ UNCHANGED << now, lateFees, installments, interestCalls, procs,
                        batchBal, creditAccountOwners, creditRequests >>

\* the update requests: a field left out has its zero value
UpdateTransactionRequests ==
    { [Amount |-> m, TransactionType |-> t] :
        m \in Amounts \cup {0}, t \in {"", "PURCHASE", "PAYMENT"} }

\* the transaction as the service changes it before it calls the repository
TransactionService_UpdatedTransaction(transaction, req) ==
    LET t1 == IF req.Amount > 0
              THEN [transaction EXCEPT !.Amount = req.Amount] ELSE transaction
    IN  IF req.TransactionType # ""
        THEN [t1 EXCEPT !.TransactionType = req.TransactionType] ELSE t1

\* the repository's reversal: it is handed the transaction already changed
TransactionRepo_Reversed(creditAccount, transaction) ==
    IF transaction.TransactionType = "PURCHASE"
    THEN [creditAccount EXCEPT
            !.CurrentBalance = creditAccount.CurrentBalance - transaction.Amount]
    ELSE [creditAccount EXCEPT
            !.CurrentBalance = creditAccount.CurrentBalance + transaction.Amount]

TransactionRepo_UpdateResult(creditAccount, transaction) ==
    IF transaction.TransactionType \notin {"PURCHASE", "PAYMENT"} THEN "invalid"
    ELSE IF /\ transaction.TransactionType = "PAYMENT"
            /\ transaction.Amount
                > TransactionRepo_Reversed(creditAccount, transaction).CurrentBalance
         THEN "exceeds"
    ELSE "ok"

\* the account UpdateTransaction saves
TransactionRepo_UpdateTransaction(creditAccount, transaction) ==
    TransactionRepo_CreateTransaction(
        TransactionRepo_Reversed(creditAccount, transaction),
        transaction.TransactionType, transaction.Amount)

TransactionService_UpdateTransaction(id, req) ==
    LET transaction == TransactionService_UpdatedTransaction(transactions[id], req)
        a   == transaction.CreditAccountID
        res == TransactionRepo_UpdateResult(accounts[a], transaction)
    IN  /\ id \in 1..Len(transactions)
        /\ IF res = "ok"
           THEN /\ transactions' = [transactions EXCEPT ![id] = transaction]
                /\ accounts' = [accounts EXCEPT
                        ![a] = TransactionRepo_UpdateTransaction(accounts[a],
                                                                 transaction)]
           ELSE UNCHANGED << accounts, transactions >>
        /\ last' = [op |-> "UpdateTransaction", acct |-> a,
                    amt |-> transaction.Amount, result |-> res,
                    balBefore  |-> accounts[a].CurrentBalance,
                    wasBlocked |-> accounts[a].IsBlocked,
                    id |-> id, was |-> transactions[id]]
        /\ UNCHANGED << now, lateFees, installments, interestCalls, procs,
                        batchBal, creditAccountOwners, creditRequests >>

\* ------------------------------------------------------------------------
\* CreditAccountController.ProcessPurchase and ProcessPayment: the request is
\* bound to CreateTransactionRequest, whose Amount is `required,gt=0`, and
\* passed through the credit account service to the repository.
\* ------------------------------------------------------------------------
Controller_ProcessPurchase(a, amount) ==
    IF amount > 0
    THEN Repo_ProcessPurchase(a, amount)
    ELSE /\ Call("Controller_ProcessPurchase", a, amount, "invalid")
         /\ UNCHANGED << now, accounts, transactions, lateFees, installments,
                         interestCalls, procs, batchBal, creditAccountOwners,
                         creditRequests >>

Controller_ProcessPayment(a, amount) ==
    IF amount > 0
    THEN Repo_ProcessPayment(a, amount)
    ELSE /\ Call("Controller_ProcessPayment", a, amount, "invalid")
         /\ UNCHANGED << now, accounts, transactions, lateFees, installments,
                         interestCalls, procs, batchBal, creditAccountOwners,
                         creditRequests >>

\* ------------------------------------------------------------------------
\* Two ApplyInterest calls at once. The database transaction of
\* ApplyInterest reads the account with tx.First, without a locking clause,
\* and later creates the transaction row and saves the account it read.
\* ------------------------------------------------------------------------
StartInterestBatch(a) ==
    /\ AllIdle
    /\ procs' = [p \in Procs |->
                    [IdleProc EXCEPT !.pc = "issued",
                                     !.entry = "Repo_ApplyInterest",
                                     !.acct = a]]
    /\ batchBal' = [b \in AccountIDs |-> accounts[b].CurrentBalance]
    /\ Call("StartInterestBatch", a, 0, "none")
    /\ UNCHANGED << now, accounts, transactions, lateFees, installments,
                    interestCalls, creditAccountOwners, creditRequests >>

\* tx.First and the check that an accrual is due
Interest_Read(p) ==
    LET r    == procs[p]
        snap == accounts[r.acct]
        res  == IF Repo_InterestNotDue(snap) THEN "noop"
                ELSE IF snap.CreditType = "LONG_TERM" THEN "panic"
                ELSE "ok"
    IN  /\ r.pc = "issued"
        /\ r.entry = "Repo_ApplyInterest"
        /\ IF res = "ok"
           THEN procs' = [procs EXCEPT ![p].pc = "read", ![p].snap = snap]
           ELSE Finish(p, res)
        /\ Call("Interest_Read", r.acct, 0, res)
        /\ UNCHANGED << now, accounts, transactions, lateFees, installments,
                        interestCalls, batchBal, creditAccountOwners,
                        creditRequests >>

\* tx.Create of the accrual, tx.Save of the account read, and the commit
Interest_Write(p) ==
    LET r        == procs[p]
        interest == Repo_CalculateInterest(r.snap)
    IN  /\ r.pc = "read"
        /\ r.entry = "Repo_ApplyInterest"
        /\ transactions' = Append(transactions,
                Transaction(r.acct, "INTEREST_ACCRUAL", interest))
        /\ accounts' = [accounts EXCEPT
                ![r.acct] = Repo_AccrueInterest(r.snap, interest)]
        /\ Finish(p, "ok")
        /\ Call("Interest_Write", r.acct, interest, "ok")
        /\ UNCHANGED << now, lateFees, installments, interestCalls, batchBal,
                        creditAccountOwners, creditRequests >>

\* ------------------------------------------------------------------------
\* transactionService.CreateTransaction with the payment fields of the
\* request, and ConfirmPayment.
\* ------------------------------------------------------------------------
PaymentMethods == {"CASH", "YAPE"}

\* the confirmation codes a caller may supply; util.GeneratePaymentCode
\* hands out "code"
ConfirmationCodes == {"code", "other"}

\* the row CreateTransaction builds from the request
TransactionOfRequest(a, type, amount, method) ==
    [ Transaction(a, type, amount) EXCEPT
        !.PaymentMethod = method,
        !.PaymentCode = IF method # "CASH" THEN "code" ELSE "",
        !.PaymentStatus = "PENDING" ]

TransactionService_CreateTransactionRequest(a, type, amount, method) ==
    LET res == TransactionRepo_Result(accounts[a], type, amount)
    IN  /\ res = "ok" => Len(transactions) < MaxTxns
        /\ IF res = "ok"
           THEN /\ transactions' = Append(transactions,
                        TransactionOfRequest(a, type, amount, method))
                /\ accounts' = [accounts EXCEPT
                        ![a] = TransactionRepo_CreateTransaction(accounts[a],
                                                                 type, amount)]
           ELSE UNCHANGED << accounts, transactions >>
        /\ Call(IF type = "PURCHASE" THEN "CreateTransaction_Purchase"
                ELSE "CreateTransaction_Payment", a, amount, res)
        /\ UNCHANGED << now, lateFees, installments, interestCalls, procs,
                        batchBal, creditAccountOwners, creditRequests >>

\* the transaction ConfirmPayment hands to the repository
ConfirmPayment_Transaction(transaction, confirmationCode) ==
    IF transaction.PaymentCode # confirmationCode
    THEN [transaction EXCEPT !.PaymentStatus = "FAILED"]
    ELSE [transaction EXCEPT !.PaymentStatus = "SUCCESS"]

\* transactionRepo.UpdateTransaction(transaction, nil): the first switch
\* dereferences the nil credit account for a purchase or a payment, and the
\* database transaction is rolled back
ConfirmPayment_Result(transaction) ==
    IF transaction.PaymentStatus # "PENDING" \/ transaction.PaymentMethod = "CASH"
    THEN "cannot"
    ELSE IF transaction.TransactionType \in {"PURCHASE", "PAYMENT"}
    THEN "panic"
    ELSE "invalid"

TransactionService_ConfirmPayment(id, confirmationCode) ==
    LET transaction == transactions[id]
        res == ConfirmPayment_Result(transaction)
    IN  /\ id \in 1..Len(transactions)
        /\ IF res = "ok"
           THEN transactions' = [transactions EXCEPT
                    ![id] = ConfirmPayment_Transaction(transaction,
                                                       confirmationCode)]
           ELSE UNCHANGED transactions
        /\ last' = [op |-> "ConfirmPayment",
                    acct |-> transaction.CreditAccountID,
                    amt |-> transaction.Amount, result |-> res,
                    balBefore |-> accounts[transaction.CreditAccountID].CurrentBalance,
                    wasBlocked |-> accounts[transaction.CreditAccountID].IsBlocked,
                    id |-> id, code |-> confirmationCode]
        /\ UNCHANGED << now, accounts, lateFees, installments, interestCalls,
                        procs, batchBal, creditAccountOwners, creditRequests >>

\* ------------------------------------------------------------------------
\* Specifications
\* ------------------------------------------------------------------------
ClientUsers == {2, 3}
CreditTypes == {"SHORT_TERM", "LONG_TERM"}
TransactionTypes == {"PURCHASE", "PAYMENT"}

\* a purchase request asks for the credit type of the user's account
RequestedCreditType(u) == accounts[FirstAccountOfUser(u)].CreditType

\* every posting entry point, one request at a time, on the given accounts
PostingsOn(ids) ==
    \/ \E a \in ids, amount \in Amounts : Repo_ProcessPurchase(a, amount)
    \/ \E a \in ids, amount \in Amounts : Repo_ProcessPayment(a, amount)
    \/ \E a \in ids, amount \in Amounts : Service_ProcessPurchase(a, amount)
    \/ \E a \in ids, amount \in Amounts :
            PurchaseService_ProcessPurchase(ClientUserID[a],
                RequestedCreditType(ClientUserID[a]), amount)
    \/ \E a \in ids, amount \in Amounts :
            PurchaseSvc2_ProcessPurchase(ClientUserID[a],
                RequestedCreditType(ClientUserID[a]), amount)
    \/ \E a \in ids, type \in TransactionTypes, amount \in Amounts :
            TransactionService_CreateTransaction(a, type, amount)

\* the accounts the accrual specification posts to
AccrualAccounts == {1}

NextPosting ==
    \/ PostingsOn(AccountIDs)
    \/ \E d \in TickSteps : Tick(d)

NextBlocking ==
    \/ PostingsOn(AccountIDs)
    \/ \E a \in AccountIDs, req \in UpdateRequests : Repo_Update(a, req)

NextAccrual ==
    \/ PostingsOn(AccrualAccounts)
    \/ \E d \in TickSteps : Tick(d)
    \/ \E a \in AccrualAccounts : Repo_ApplyInterest(a)
    \/ \E a \in AccrualAccounts : Repo_ApplyLateFee(a)

NextInterest ==
    \/ \E a \in AccountIDs, amount \in Amounts : Repo_ProcessPurchase(a, amount)
    \/ \E a \in AccountIDs, amount \in Amounts : Repo_ProcessPayment(a, amount)
    \/ \E d \in InterestTickSteps : Tick(d)
    \/ \E a \in AccountIDs : Repo_ApplyInterest(a)

\* update requests that set the grace period and the due day
ScheduleUpdateRequests ==
    { [ CreditLimit |-> 0, MonthlyDueDate |-> d, InterestRate |-> 0,
        InterestType |-> "", CreditType |-> "", GracePeriod |-> g,
        IsBlocked |-> FALSE ] : d \in {0, 31}, g \in {0, 2, 12} }

\* the accounts whose terms the installment specification updates
ScheduleAccounts == {2}

\* purchases asking for either credit type, on accounts of either type,
\* with the grace period and the due day varied
NextInstallments ==
    \/ \E a \in AccountIDs, amount \in Amounts : Repo_ProcessPurchase(a, amount)
    \/ \E a \in AccountIDs, ct \in CreditTypes, amount \in Amounts :
            PurchaseService_ProcessPurchase(ClientUserID[a], ct, amount)
    \/ \E a \in AccountIDs, ct \in CreditTypes, amount \in Amounts :
            PurchaseSvc2_ProcessPurchase(ClientUserID[a], ct, amount)
    \/ \E a \in ScheduleAccounts, req \in ScheduleUpdateRequests :
            Repo_Update(a, req)

\* due date queries on accounts with and without schedules, the LONG_TERM
\* account's grace period and due day varied between its purchases
NextDueDate ==
    \/ \E a \in ScheduleAccounts, amount \in Amounts :
            PurchaseService_ProcessPurchase(ClientUserID[a], "LONG_TERM", amount)
    \/ \E a \in ScheduleAccounts, req \in ScheduleUpdateRequests :
            Repo_Update(a, req)
    \/ \E a \in AccountIDs : CalculateDueDate(a)
    \/ \E d \in TickSteps : Tick(d)

\* principals, in cents, and yearly nominal rates, in percent, of the
\* installment amounts computed
Principals == Amounts \cup {120000}

AnnuityRates == {0, 10, 12, 17}

\* the installment amount as a function of principal, rate and count
NextAnnuity ==
    \E amount \in Principals, rate \in AnnuityRates,
       n \in 1..CreditDurationMonths :
        CalculateInstallmentAmount(amount, rate, n)

\* the account statements are asked for, and the start dates asked
StatementAccounts == {1}

StartDates ==
    {ZeroTime, StartDay, MaxNow} \cup {StartDay + d : d \in TickSteps}

\* postings on an account and statements of it
NextStatement ==
    \/ PostingsOn(StatementAccounts)
    \/ \E d \in TickSteps : Tick(d)
    \/ \E a \in StatementAccounts, startDate \in StartDates,
          repo \in StatementRepos, caseInsensitive \in BOOLEAN :
            GetClientAccountStatement(a, startDate, repo, caseInsensitive)

\* credit accounts opened directly and through credit requests
NextOpening ==
    \/ \E p \in Procs, c \in ClientUsers, e \in EstablishmentIDs :
            CreateCreditAccount_Check(p, c, e)
    \/ \E p \in Procs : CreateCreditAccount_Create(p)
    \/ \E c \in ClientUsers, e \in EstablishmentIDs : CreateCreditRequest(c, e)
    \/ \E i \in 1..MaxRequests : ApproveCreditRequest(i)

\* update requests that move the due day to the first of the month
LateFeeUpdateRequests ==
    { [ CreditLimit |-> 0, MonthlyDueDate |-> 1, InterestRate |-> 0,
        InterestType |-> "", CreditType |-> "", GracePeriod |-> 0,
        IsBlocked |-> FALSE ] }

\* the clock of the late fee specification: from the 10th to the 31st
LateFeeTickSteps == {21}

\* purchases and late fees on an account with the establishment's rules
NextLateFee ==
    \/ \E a \in AccrualAccounts, amount \in Amounts : Repo_ProcessPurchase(a, amount)
    \/ \E a \in AccrualAccounts, amount \in Amounts : Repo_ProcessPayment(a, amount)
    \/ \E a \in AccrualAccounts, req \in LateFeeUpdateRequests : Repo_Update(a, req)
    \/ \E d \in LateFeeTickSteps : Tick(d)
    \/ \E a \in AccrualAccounts : Repo_ApplyLateFee(a)

\* LONG_TERM purchases with their schedules, the clock, and interest
NextInstallmentInterest ==
    \/ \E a \in ScheduleAccounts, amount \in Amounts :
            PurchaseService_ProcessPurchase(ClientUserID[a], "LONG_TERM", amount)
    \/ \E a \in ScheduleAccounts, amount \in Amounts :
            Repo_ProcessPayment(a, amount)
    \/ \E d \in InterestTickSteps : Tick(d)
    \/ \E a \in ScheduleAccounts : Repo_ApplyInterest(a)

\* the account whose ledger is edited
LedgerAccounts == {1}

\* edits are explored while every balance is within MaxDrift of zero
LedgerInRange ==
    \A a \in LedgerAccounts :
        /\ accounts[a].CurrentBalance <= MaxDrift
        /\ accounts[a].CurrentBalance >= 0 - MaxDrift

\* repository postings and edits of the stored transactions
NextLedger ==
    \/ \E a \in LedgerAccounts, amount \in Amounts : Repo_ProcessPurchase(a, amount)
    \/ \E a \in LedgerAccounts, amount \in Amounts : Repo_ProcessPayment(a, amount)
    \/ \E id \in 1..MaxTxns :
            /\ LedgerInRange
            /\ TransactionService_DeleteTransaction(id)
    \/ \E id \in 1..MaxTxns, req \in UpdateTransactionRequests :
            /\ LedgerInRange
            /\ TransactionService_UpdateTransaction(id, req)

\* the amounts a request can carry, valid or not
RequestAmounts == {0 - 40000, 0, 40000}

\* postings through the handlers, deletions and interest on one account
NextAmounts ==
    \/ \E a \in LedgerAccounts, amount \in RequestAmounts :
            Controller_ProcessPurchase(a, amount)
    \/ \E a \in LedgerAccounts, amount \in RequestAmounts :
            Controller_ProcessPayment(a, amount)
    \/ \E a \in LedgerAccounts, type \in TransactionTypes,
          amount \in RequestAmounts :
            TransactionService_CreateTransaction(a, type, amount)
    \/ \E id \in 1..MaxTxns :
            /\ LedgerInRange
            /\ TransactionService_DeleteTransaction(id)
    \/ \E d \in TickSteps : Tick(d)
    \/ \E a \in LedgerAccounts : Repo_ApplyInterest(a)

\* purchases and the clock, then two ApplyInterest calls on one account
NextInterestConc ==
    \/ \E a \in AccountIDs, amount \in Amounts :
            AllIdle /\ Repo_ProcessPurchase(a, amount)
    \/ \E d \in InterestTickSteps : AllIdle /\ Tick(d)
    \/ \E a \in AccountIDs : StartInterestBatch(a)
    \/ \E p \in Procs : Interest_Read(p)
    \/ \E p \in Procs : Interest_Write(p)

\* transactions created with a payment method, and their confirmation
NextConfirm ==
    \/ \E a \in AccountIDs, type \in TransactionTypes, amount \in Amounts,
          method \in PaymentMethods :
            TransactionService_CreateTransactionRequest(a, type, amount, method)
    \/ \E id \in 1..MaxTxns, code \in ConfirmationCodes :
            TransactionService_ConfirmPayment(id, code)

\* update requests that provide some fields and leave the others at their
\* zero values
FieldUpdateRequests ==
    { [ CreditLimit |-> l, MonthlyDueDate |-> d, InterestRate |-> 0,
        InterestType |-> "", CreditType |-> "", GracePeriod |-> g,
        IsBlocked |-> b ] :
        l \in {0, 50000}, d \in {0, 20}, g \in {0, 2}, b \in BOOLEAN }

\* purchases and updates of the accounts' terms
NextUpdate ==
    \/ \E a \in LedgerAccounts, amount \in Amounts :
            Repo_ProcessPurchase(a, amount)
    \/ \E a \in LedgerAccounts, req \in FieldUpdateRequests :
            Repo_Update(a, req)

\* update requests that move the due day before or after the day of the
\* purchases, with and without a grace period
DueDayUpdateRequests ==
    { [ CreditLimit |-> 0, MonthlyDueDate |-> d, InterestRate |-> 0,
        InterestType |-> "", CreditType |-> "", GracePeriod |-> g,
        IsBlocked |-> FALSE ] : d \in {1, 28}, g \in {0, 1} }

\* purchases through both purchase services on the LONG_TERM account, its
\* due day and grace period varied
NextFirstDue ==
    \/ \E a \in ScheduleAccounts, ct \in CreditTypes, amount \in Amounts :
            PurchaseService_ProcessPurchase(ClientUserID[a], ct, amount)
    \/ \E a \in ScheduleAccounts, ct \in CreditTypes, amount \in Amounts :
            PurchaseSvc2_ProcessPurchase(ClientUserID[a], ct, amount)
    \/ \E a \in ScheduleAccounts, req \in DueDayUpdateRequests :
            Repo_Update(a, req)

\* the purchase services, succeeding or failing in the database
NextRollback ==
    \/ \E a \in AccountIDs, amount \in Amounts :
            PurchaseService_ProcessPurchase(ClientUserID[a],
                RequestedCreditType(ClientUserID[a]), amount)
    \/ \E a \in AccountIDs, amount \in Amounts :
            PurchaseSvc2_ProcessPurchase(ClientUserID[a],
                RequestedCreditType(ClientUserID[a]), amount)
    \/ \E a \in AccountIDs, amount \in Amounts,
          step \in PurchaseService_FailingSteps :
            PurchaseService_ProcessPurchaseFailing(ClientUserID[a],
                RequestedCreditType(ClientUserID[a]), amount, step)
    \/ \E a \in AccountIDs, amount \in Amounts,
          step \in PurchaseSvc2_FailingSteps :
            PurchaseSvc2_ProcessPurchaseFailing(ClientUserID[a],
                RequestedCreditType(ClientUserID[a]), amount, step)

NextConc ==
    \/ \E a \in AccountIDs, amount \in Amounts :
            AllIdle /\ Repo_ProcessPurchase(a, amount)
    \/ \E a \in AccountIDs, r1, r2 \in BatchRequests, m1, m2 \in Amounts :
            StartBatch(a, r1, m1, r2, m2)
    \/ \E p \in Procs : Locked_Execute(p)
    \/ \E p \in Procs : Unlocked_Read(p)
    \/ \E p \in Procs : Unlocked_Write(p)

Next ==
    \/ \E a \in AccountIDs, amount \in Amounts : Repo_ProcessPurchase(a, amount)
    \/ \E a \in AccountIDs, amount \in Amounts : Repo_ProcessPayment(a, amount)
    \/ \E a \in AccountIDs, amount \in Amounts : Service_ProcessPurchase(a, amount)
    \/ \E u \in ClientUsers, ct \in CreditTypes, amount \in Amounts :
            PurchaseService_ProcessPurchase(u, ct, amount)
    \/ \E u \in ClientUsers, ct \in CreditTypes, amount \in Amounts :
            PurchaseSvc2_ProcessPurchase(u, ct, amount)
    \/ \E a \in AccountIDs, type \in TransactionTypes, amount \in Amounts :
            TransactionService_CreateTransaction(a, type, amount)
    \/ \E d \in TickSteps : Tick(d)
    \/ \E a \in AccountIDs : Repo_ApplyInterest(a)
    \/ \E a \in AccountIDs : Repo_ApplyLateFee(a)
    \/ \E a \in AccountIDs, req \in UpdateRequests : Repo_Update(a, req)

Spec == Init /\ [][Next]_vars

\* postings and the clock
SpecPosting == Init /\ [][NextPosting]_vars

\* postings and account updates
SpecBlocking == Init /\ [][NextBlocking]_vars

\* postings, the clock, interest and late fees
SpecAccrual == Init /\ [][NextAccrual]_vars

\* repository postings, the clock and interest on every account
SpecInterest == Init /\ [][NextInterest]_vars

\* purchases and their installment schedules
SpecInstallments == Init /\ [][NextInstallments]_vars

\* due date queries
SpecDueDate == Init /\ [][NextDueDate]_vars

\* installment amounts
SpecAnnuity == Init /\ [][NextAnnuity]_vars

\* account statements
SpecStatement == Init /\ [][NextStatement]_vars

\* opening credit accounts
SpecOpening == Init /\ [][NextOpening]_vars

\* late fees at the edges of the rules' ranges
SpecLateFee == Init /\ [][NextLateFee]_vars

\* interest on an account that carries installments
SpecInstallmentInterest == Init /\ [][NextInstallmentInterest]_vars

\* editing and deleting stored transactions
SpecLedger == Init /\ [][NextLedger]_vars

\* the amounts of the stored transactions
SpecAmounts == Init /\ [][NextAmounts]_vars

\* concurrent interest accrual
SpecInterestConc == Init /\ [][NextInterestConc]_vars

\* confirming payments
SpecConfirm == Init /\ [][NextConfirm]_vars

\* updating the terms of an account
SpecUpdate == Init /\ [][NextUpdate]_vars

\* the first due date of a purchase's installments
SpecFirstDue == Init /\ [][NextFirstDue]_vars

\* purchases that fail in the database
SpecRollback == Init /\ [][NextRollback]_vars

\* two postings in flight
SpecConc == Init /\ [][NextConc]_vars

\* ------------------------------------------------------------------------
\* Properties
\* ------------------------------------------------------------------------
PurchaseOps ==
    { "Repo_ProcessPurchase", "Service_ProcessPurchase",
      "PurchaseService_ProcessPurchase", "PurchaseSvc2_ProcessPurchase",
      "CreateTransaction_Purchase" }

\* the purchase entry points of the service layer
ServicePurchaseOps ==
    { "Service_ProcessPurchase", "PurchaseService_ProcessPurchase",
      "PurchaseSvc2_ProcessPurchase" }

PaymentOps == { "Repo_ProcessPayment", "CreateTransaction_Payment" }

\* the amount of a stored transaction, signed by its type
SignedAmount(t) ==
    IF t.TransactionType = "PAYMENT" THEN 0 - t.Amount ELSE t.Amount

\* the signed sum of the first n stored transactions of account a
RECURSIVE LedgerSum(_, _)
LedgerSum(a, n) ==
    IF n = 0 THEN 0
    ELSE LedgerSum(a, n - 1)
         + (IF transactions[n].CreditAccountID = a
            THEN SignedAmount(transactions[n]) ELSE 0)

\* C1: from a new account, after any sequence of successful purchase and
\* payment postings through any posting entry point, every account has
\* 0 <= CurrentBalance <= CreditLimit.
C1_BalanceWithinLimit ==
    \A a \in AccountIDs :
        /\ 0 <= accounts[a].CurrentBalance
        /\ accounts[a].CurrentBalance <= accounts[a].CreditLimit

\* C2: reconciliation: after any sequence of successful postings (purchase,
\* payment, interest accrual, late fee), CurrentBalance equals the sum of the
\* account's stored PURCHASE, fee and interest transactions minus the sum of
\* its stored PAYMENT transactions.
C2_Reconciliation ==
    \A a \in AccountIDs :
        accounts[a].CurrentBalance = LedgerSum(a, Len(transactions))

\* C3: a purchase posting with CurrentBalance + amount > CreditLimit fails
\* with the credit-limit error on every purchase entry point, and the
\* accounts, transactions and installments are what they were before.
C3_OverLimitRejected ==
    [][ (/\ last'.op \in PurchaseOps
         /\ accounts[last'.acct].CurrentBalance + last'.amt
                > accounts[last'.acct].CreditLimit)
        => (/\ last'.result = "limit"
            /\ accounts' = accounts
            /\ transactions' = transactions
            /\ installments' = installments) ]_vars

\* C4: a payment posting with amount > CurrentBalance fails with the
\* payment-exceeds-balance error; the persisted balance is unchanged and no
\* PAYMENT transaction is stored.
C4_OverpaymentRejected ==
    [][ (/\ last'.op \in PaymentOps
         /\ last'.amt > accounts[last'.acct].CurrentBalance)
        => (/\ last'.result = "exceeds"
            /\ accounts' = accounts
            /\ transactions' = transactions) ]_vars

\* a payment above a positive balance has just been refused
C4_Witness ==
    /\ last.op \in PaymentOps
    /\ last.result = "exceeds"
    /\ last.balBefore > 0
    /\ last.amt > last.balBefore
    /\ accounts[last.acct].CurrentBalance = last.balBefore

BatchDone == \A p \in Procs : procs[p].pc = "done"

BatchAccount == procs[1].acct

\* the signed amount a finished request of the batch posted
Posted(p) ==
    IF procs[p].result # "ok" THEN 0
    ELSE IF procs[p].type = "PAYMENT" THEN 0 - procs[p].amt
    ELSE procs[p].amt

\* C5: of two purchases issued concurrently on one account, each within the
\* limit on its own but jointly above it, exactly one succeeds and the other
\* fails with the credit-limit error, and the final balance is within the
\* limit, in every interleaving.
C5_ExactlyOneSucceeds ==
    (/\ BatchDone
     /\ \A p \in Procs : procs[p].type = "PURCHASE"
     /\ \A p \in Procs : batchBal[BatchAccount] + procs[p].amt
                            <= accounts[BatchAccount].CreditLimit
     /\ batchBal[BatchAccount] + procs[1].amt + procs[2].amt
            > accounts[BatchAccount].CreditLimit)
    => (/\ \E p, q \in Procs : /\ p # q
                               /\ procs[p].result = "ok"
                               /\ procs[q].result = "limit"
        /\ accounts[BatchAccount].CurrentBalance
                <= accounts[BatchAccount].CreditLimit)

\* C6: in any interleaving of concurrent purchase and payment postings on
\* one account no update is lost: the final balance is the initial balance
\* plus the successful purchases minus the successful payments, and it is
\* not negative.
C6_NoLostUpdate ==
    BatchDone
    => (/\ accounts[BatchAccount].CurrentBalance
                = batchBal[BatchAccount] + Posted(1) + Posted(2)
        /\ accounts[BatchAccount].CurrentBalance >= 0)

\* C7: while IsBlocked is set, a purchase posting on any purchase entry
\* point fails with the account-blocked error, stores no PURCHASE
\* transaction and leaves the balance unchanged.
C7_BlockedRejected ==
    [][ (/\ last'.op \in PurchaseOps
         /\ accounts[last'.acct].IsBlocked)
        => (/\ last'.result = "blocked"
            /\ transactions' = transactions
            /\ accounts'[last'.acct].CurrentBalance
                    = accounts[last'.acct].CurrentBalance) ]_vars

\* C8: a purchase through the service layer is rejected with the overdue
\* error, balance and transactions unchanged, whenever the account it is
\* posted to has CurrentBalance > 0 and today is after this month's due date.
C8_OverdueRejected ==
    [][ (/\ last'.op \in ServicePurchaseOps
         /\ isAccountOverdue(accounts[last'.acct]))
        => (/\ last'.result = "overdue"
            /\ transactions' = transactions
            /\ accounts' = accounts) ]_vars

\* C9: after a successful payment posting on an account whose IsBlocked flag
\* was set, if the resulting CurrentBalance is <= 0 the persisted IsBlocked
\* flag is false.
C9_PaidOffUnblocks ==
    [][ (/\ last'.op \in PaymentOps
         /\ last'.result = "ok"
         /\ accounts[last'.acct].IsBlocked
         /\ accounts'[last'.acct].CurrentBalance <= 0)
        => ~accounts'[last'.acct].IsBlocked ]_vars

\* a blocked account has just been paid off
C9_Witness ==
    /\ last.op \in PaymentOps
    /\ last.result = "ok"
    /\ last.wasBlocked
    /\ last.balBefore > 0
    /\ accounts[last.acct].CurrentBalance <= 0
    /\ ~accounts[last.acct].IsBlocked

\* C10, as stated: an ApplyInterest invocation made less than one month
\* after the previous invocation on the same account posts no transaction
\* and leaves the account unchanged.
C10_SecondCallAccruesNothing ==
    [][ (/\ last'.op = "Repo_ApplyInterest"
         /\ interestCalls[last'.acct] # Never
         /\ now < AddDate(interestCalls[last'.acct], 1))
        => (/\ transactions' = transactions
            /\ accounts' = accounts) ]_vars

\* C10, amended: an ApplyInterest invocation made less than one month after
\* the account's LastInterestAccrualDate (its creation, or the last
\* invocation that accrued interest) posts no transaction and leaves
\* CurrentBalance and LastInterestAccrualDate unchanged.
C10_WithinMonthOfAccrual ==
    [][ (/\ last'.op = "Repo_ApplyInterest"
         /\ now < AddDate(accounts[last'.acct].LastInterestAccrualDate, 1))
        => (/\ last'.result = "noop"
            /\ transactions' = transactions
            /\ accounts' = accounts) ]_vars

HasAccrued(a) ==
    \E i \in 1..Len(transactions) :
        /\ transactions[i].CreditAccountID = a
        /\ transactions[i].TransactionType = "INTEREST_ACCRUAL"

\* an invocation accrued interest, and a later one within the month did not
C10_Witness ==
    /\ last.op = "Repo_ApplyInterest"
    /\ last.result = "noop"
    /\ HasAccrued(last.acct)
    /\ accounts[last.acct].CurrentBalance > 0
    /\ now > accounts[last.acct].LastInterestAccrualDate
    /\ now < AddDate(accounts[last.acct].LastInterestAccrualDate, 1)

\* C11: when a step of a purchase posting fails (the transaction insert, the
\* balance update or the installment insert), the accounts, the transactions
\* and the installments are what they were before the call.
C11_FailedPurchaseLeavesNothing ==
    [][ (/\ last'.op \in PurchaseOps
         /\ last'.result = "dberror")
        => (/\ accounts' = accounts
            /\ transactions' = transactions
            /\ installments' = installments) ]_vars

\* the installments the step just taken has stored
NewInstallments == SubSeq(installments', Len(installments) + 1, Len(installments'))

\* C12: a successful purchase creates installments if and only if the
\* charged account's credit type is LONG_TERM; every installment it creates
\* is PENDING and belongs to that account.
C12_ScheduleIffLongTerm ==
    [][ (/\ last'.op \in PurchaseOps
         /\ last'.result = "ok")
        => (/\ (Len(NewInstallments) > 0)
                <=> (accounts[last'.acct].CreditType = "LONG_TERM")
            /\ \A i \in 1..Len(NewInstallments) :
                /\ NewInstallments[i].Status = "PENDING"
                /\ NewInstallments[i].CreditAccountID = last'.acct) ]_vars

\* the first day after today whose day of the month is d
NextOccurrence(d) ==
    CHOOSE n \in (now + 1)..(now + 62) :
        /\ Day(n) = d
        /\ \A m \in (now + 1)..(n - 1) : Day(m) # d

\* C13: for a SHORT_TERM account CalculateDueDate returns the first date
\* strictly after today whose day of the month is MonthlyDueDate: this
\* month's if it is still ahead, otherwise next month's.
C13_ShortTermNextOccurrence ==
    (/\ last.op = "CalculateDueDate"
     /\ accounts[last.acct].CreditType = "SHORT_TERM")
    => last.value = NextOccurrence(accounts[last.acct].MonthlyDueDate)

\* due dates of the account's PENDING installments due after today
PendingDueDates(a) ==
    { installments[i].DueDate : i \in
        { j \in 1..Len(installments) :
            /\ installments[j].CreditAccountID = a
            /\ installments[j].Status = "PENDING"
            /\ installments[j].DueDate > now } }

\* C14: for a LONG_TERM account CalculateDueDate returns the minimum due
\* date among the account's PENDING installments due after today, whatever
\* their stored order, and the SHORT_TERM result when there is none.
C14_LongTermEarliestPending ==
    (/\ last.op = "CalculateDueDate"
     /\ accounts[last.acct].CreditType = "LONG_TERM")
    => LET due == PendingDueDates(last.acct)
       IN  IF due # {}
           THEN \A d \in due : last.value <= d
           ELSE last.value = NextOccurrence(accounts[last.acct].MonthlyDueDate)

\* months since the epoch of the month a day lies in
MonthIndex(n) == (Year(n) * 12) + Month(n)

\* day d of the month of n, clamped to the month's last day
ClampedDay(n, d) ==
    IF d > DaysInMonthOf(Year(n), Month(n))
    THEN DaysInMonthOf(Year(n), Month(n)) ELSE d

\* C15: in every schedule a purchase creates, each installment falls on the
\* account's MonthlyDueDate day of its month, clamped to the month's last
\* day, and each is due in the calendar month after the previous one, so
\* the due dates strictly increase and no month is skipped.
C15_MonthlyDueDates ==
    [][ (/\ last'.op \in PurchaseOps
         /\ last'.result = "ok")
        => (/\ \A i \in 1..Len(NewInstallments) :
                Day(NewInstallments[i].DueDate)
                    = ClampedDay(NewInstallments[i].DueDate,
                                 accounts[last'.acct].MonthlyDueDate)
            /\ \A i \in 2..Len(NewInstallments) :
                /\ NewInstallments[i].DueDate > NewInstallments[i - 1].DueDate
                /\ MonthIndex(NewInstallments[i].DueDate)
                    = MonthIndex(NewInstallments[i - 1].DueDate) + 1) ]_vars

\* C16: the number of installments a LONG_TERM purchase creates is
\* max(1, 12 - GracePeriod).
C16_NumberOfInstallments ==
    [][ (/\ last'.op \in PurchaseOps
         /\ last'.result = "ok"
         /\ Len(NewInstallments) > 0)
        => Len(NewInstallments)
            = (IF 12 - accounts[last'.acct].GracePeriod < 1
               THEN 1 ELSE 12 - accounts[last'.acct].GracePeriod) ]_vars

\* the balance left of a loan after k more periods, each adding the
\* period's interest and taking off one installment
RECURSIVE RemainingBalance(_, _, _, _)
RemainingBalance(balance, rate, installment, k) ==
    IF k = 0 THEN balance
    ELSE RemainingBalance(balance + MulFixed(balance, rate) - installment,
                          rate, installment, k - 1)

\* C17: the installment amount is a finite positive number for every rate
\* >= 0, and n installments of it repay the principal with the interest
\* scheduled on the outstanding balance, to within two cents per period of
\* the planning horizon.
C17_AnnuityRepaysPrincipal ==
    (last.op = "calculateInstallmentAmount")
    => (/\ last.value # NaN
        /\ last.value > 0
        /\ LET left == RemainingBalance(last.amt,
                            (last.rate * FixedOne) \div 1200, last.value, last.n)
           IN  /\ left <= 2 * CreditDurationMonths
               /\ 0 - left <= 2 * CreditDurationMonths)

\* the signed sum of the first n stored transactions of account a that are
\* dated before the given day
RECURSIVE LedgerSumBefore(_, _, _)
LedgerSumBefore(a, day, n) ==
    IF n = 0 THEN 0
    ELSE LedgerSumBefore(a, day, n - 1)
         + (IF /\ transactions[n].CreditAccountID = a
               /\ transactions[n].TransactionDate < day
            THEN SignedAmount(transactions[n]) ELSE 0)

\* C18: the statement's starting balance is 0 when the start date is zero
\* or no transaction precedes it, and otherwise the sum over the account's
\* transactions dated strictly before the start date of +amount for each
\* purchase and fee and -amount for each payment.
C18_StartingBalance ==
    (last.op = "GetClientAccountStatement")
    => last.value = (IF last.startDate = ZeroTime THEN 0
                     ELSE LedgerSumBefore(last.acct, last.startDate,
                                          Len(transactions)))

\* C19: after any sequence and interleaving of the calls that open credit
\* accounts there is at most one credit account for each pair of client
\* and establishment.
C19_OneAccountPerClientAndEstablishment ==
    \A i, j \in 1..Len(creditAccountOwners) :
        creditAccountOwners[i] = creditAccountOwners[j] => i = j

\* the fee the rule selected for the account prescribes on its balance
PrescribedLateFee(acct) ==
    LET rule == LateFeeRules[Repo_SelectLateFeeRule(acct,
                    calculateDaysOverdue(acct.MonthlyDueDate))]
    IN  IF rule.FeeType = "PERCENTAGE"
        THEN (rule.FeeValue * acct.CurrentBalance) \div 100
        ELSE rule.FeeValue

\* C20: when ApplyLateFee runs on an overdue account with an applicable
\* rule, it posts exactly one LATE_FEE transaction whose amount is the rule's
\* value percent of the current balance (PERCENTAGE) or the rule's value
\* (FIXED), and raises CurrentBalance by exactly that amount.
C20_LateFeePosted ==
    [][ (/\ last'.op = "Repo_ApplyLateFee"
         /\ last'.result = "ok")
        => (/\ Len(transactions') = Len(transactions) + 1
            /\ transactions'[Len(transactions')].CreditAccountID = last'.acct
            /\ transactions'[Len(transactions')].TransactionType = "LATE_FEE"
            /\ transactions'[Len(transactions')].Amount
                = PrescribedLateFee(accounts[last'.acct])
            /\ accounts'[last'.acct].CurrentBalance
                = accounts[last'.acct].CurrentBalance
                  + PrescribedLateFee(accounts[last'.acct])) ]_vars

\* indices of the establishment's rules whose half-open range holds the days
HalfOpenRules(daysOverdue) ==
    { i \in 1..Len(LateFeeRules) :
        /\ daysOverdue >= LateFeeRules[i].DaysOverdueMin
        /\ daysOverdue < LateFeeRules[i].DaysOverdueMax }

\* C21: ApplyLateFee on an overdue account applies the first rule whose
\* half-open range [DaysOverdueMin, DaysOverdueMax) contains daysOverdue;
\* when no rule's range contains it the call fails with the no-rule error
\* and neither changes the balance nor records a fee.
C21_HalfOpenRuleRange ==
    [][ (/\ last'.op = "Repo_ApplyLateFee"
         /\ calculateDaysOverdue(accounts[last'.acct].MonthlyDueDate) > 0)
        => LET days  == calculateDaysOverdue(accounts[last'.acct].MonthlyDueDate)
               rules == HalfOpenRules(days)
           IN  IF rules = {}
               THEN /\ last'.result = "norule"
                    /\ accounts' = accounts
                    /\ lateFees' = lateFees
               ELSE /\ last'.result = "ok"
                    /\ \E i \in rules :
                        /\ \A j \in rules : i <= j
                        /\ lateFees'[Len(lateFees')].Amount
                            = (IF LateFeeRules[i].FeeType = "PERCENTAGE"
                               THEN (LateFeeRules[i].FeeValue
                                     * accounts[last'.acct].CurrentBalance) \div 100
                               ELSE LateFeeRules[i].FeeValue) ]_vars

\* C22: ApplyInterest changes state only when now is at least one month
\* after LastInterestAccrualDate; when it does, it posts exactly one
\* INTEREST_ACCRUAL transaction of the account, raises CurrentBalance by that
\* transaction's amount, sets LastInterestAccrualDate to now and changes
\* nothing else; otherwise the accounts and the transactions are unchanged.
C22_AccrualFrame ==
    [][ (last'.op = "Repo_ApplyInterest")
        => LET a    == last'.acct
               n    == Len(transactions)
               posted == transactions'[n + 1]
           IN  IF accounts' # accounts \/ transactions' # transactions
               THEN /\ now >= AddDate(accounts[a].LastInterestAccrualDate, 1)
                    /\ Len(transactions') = n + 1
                    /\ SubSeq(transactions', 1, n) = transactions
                    /\ posted.TransactionType = "INTEREST_ACCRUAL"
                    /\ posted.CreditAccountID = a
                    /\ accounts' = [accounts EXCEPT
                            ![a].CurrentBalance =
                                accounts[a].CurrentBalance + posted.Amount,
                            ![a].LastInterestAccrualDate = now]
               ELSE now < AddDate(accounts[a].LastInterestAccrualDate, 1)
                        => last'.result = "noop" ]_vars

\* an invocation that accrued interest a month or more after the last accrual
C22_Witness ==
    /\ last.op = "Repo_ApplyInterest"
    /\ last.result = "ok"
    /\ accounts[last.acct].CurrentBalance > last.balBefore
    /\ accounts[last.acct].LastInterestAccrualDate = now
    /\ transactions[Len(transactions)].TransactionType = "INTEREST_ACCRUAL"

\* the nominal interest on the first n stored installments that belong to
\* account a, are PENDING and fall due after today, each on the days from
\* today to its due date
RECURSIVE PendingInstallmentInterest(_, _)
PendingInstallmentInterest(a, n) ==
    IF n = 0 THEN 0
    ELSE PendingInstallmentInterest(a, n - 1)
         + (IF /\ installments[n].CreditAccountID = a
               /\ installments[n].Status = "PENDING"
               /\ installments[n].DueDate > now
            THEN (installments[n].Amount * accounts[a].InterestRate
                    * (installments[n].DueDate - now)) \div 36500
            ELSE 0)

\* C23: for a LONG_TERM account whose accrual is due, the interest
\* ApplyInterest accrues is the sum of the per-installment interest over
\* exactly the PENDING installments due after today, each computed on the
\* time from today to its due date.
C23_InstallmentInterest ==
    [][ (/\ last'.op = "Repo_ApplyInterest"
         /\ accounts[last'.acct].CreditType = "LONG_TERM"
         /\ accounts[last'.acct].CurrentBalance # 0
         /\ now >= AddDate(accounts[last'.acct].LastInterestAccrualDate, 1))
        => accounts'[last'.acct].CurrentBalance
            = accounts[last'.acct].CurrentBalance
              + PendingInstallmentInterest(last'.acct, Len(installments)) ]_vars

\* the signed sum of the first n rows of a transactions table that belong
\* to account a
RECURSIVE SignedSum(_, _, _)
SignedSum(table, a, n) ==
    IF n = 0 THEN 0
    ELSE SignedSum(table, a, n - 1)
         + (IF table[n].CreditAccountID = a THEN SignedAmount(table[n]) ELSE 0)

\* C26: DeleteTransaction removes the transaction and applies the
\* compensating balance change (minus the amount of a deleted PURCHASE, plus
\* the amount of a deleted PAYMENT), so that a balance that equalled the
\* signed sum of the account's transactions still equals the signed sum of
\* the remaining ones and stays within 0..CreditLimit.
C26_DeleteCompensates ==
    [][ (/\ last'.op = "DeleteTransaction"
         /\ last'.result = "ok")
        => LET a == last'.acct
           IN  /\ Len(transactions') = Len(transactions) - 1
               /\ accounts'[a].CurrentBalance - accounts[a].CurrentBalance
                    = SignedSum(transactions', a, Len(transactions'))
                      - SignedSum(transactions, a, Len(transactions))
               /\ (accounts[a].CurrentBalance
                        = SignedSum(transactions, a, Len(transactions)))
                    => (accounts'[a].CurrentBalance
                        = SignedSum(transactions', a, Len(transactions')))
               /\ 0 <= accounts'[a].CurrentBalance
               /\ accounts'[a].CurrentBalance <= accounts'[a].CreditLimit ]_vars

\* C27: an UpdateTransaction that changes a stored transaction's amount
\* from a to a' changes the balance by a' - a for a PURCHASE and by
\* -(a' - a) for a PAYMENT, so that a balance that equalled the signed sum
\* of the account's transactions still does.
C27_UpdateAdjustsBalance ==
    [][ (/\ last'.op = "UpdateTransaction"
         /\ last'.result = "ok"
         /\ transactions'[last'.id].TransactionType = last'.was.TransactionType
         /\ transactions'[last'.id].Amount # last'.was.Amount)
        => LET a == last'.acct
           IN  /\ accounts'[a].CurrentBalance - accounts[a].CurrentBalance
                    = SignedAmount(transactions'[last'.id])
                      - SignedAmount(last'.was)
               /\ (accounts[a].CurrentBalance
                        = SignedSum(transactions, a, Len(transactions)))
                    => (accounts'[a].CurrentBalance
                        = SignedSum(transactions', a, Len(transactions'))) ]_vars

\* the operations that post a purchase or a payment
PostingOps ==
    { "Controller_ProcessPurchase", "Controller_ProcessPayment",
      "Repo_ProcessPurchase", "Repo_ProcessPayment",
      "CreateTransaction_Purchase", "CreateTransaction_Payment" }

\* C24: every stored transaction has an amount above 0: a purchase or
\* payment posting with an amount of 0 or less changes nothing, and no
\* accrual or fee of 0 or less is stored.
C24_PositiveAmounts ==
    [][ /\ \A i \in 1..Len(transactions') : transactions'[i].Amount > 0
        /\ (last'.op \in PostingOps /\ last'.amt <= 0)
            => UNCHANGED << accounts, transactions, lateFees, installments >>
      ]_vars

\* the places of the interest accruals of account a in the transactions
AccrualsOf(a) ==
    { i \in 1..Len(transactions) :
        /\ transactions[i].CreditAccountID = a
        /\ transactions[i].TransactionType = "INTEREST_ACCRUAL" }

\* C25: of two concurrent ApplyInterest calls on an account at most one
\* posts an INTEREST_ACCRUAL transaction and adds interest: two accruals of
\* one account are at least a month apart.
C25_NoDoubleAccrual ==
    \A a \in AccountIDs : \A i, j \in AccrualsOf(a) :
        i < j => transactions[j].TransactionDate
                    >= AddDate(transactions[i].TransactionDate, 1)

\* C28: a payment status only moves from PENDING to SUCCESS or FAILED.
\* ConfirmPayment on a PENDING transaction not paid in cash completes
\* normally and stores SUCCESS when the code is the stored payment code and
\* FAILED otherwise, leaving the accounts alone; on any other transaction it
\* fails and changes nothing.
C28_ConfirmPayment ==
    [][ /\ \A i \in 1..Len(transactions) :
            (i <= Len(transactions')
                /\ transactions'[i].PaymentStatus # transactions[i].PaymentStatus)
              => /\ transactions[i].PaymentStatus = "PENDING"
                 /\ transactions'[i].PaymentStatus \in {"SUCCESS", "FAILED"}
        /\ (last'.op = "ConfirmPayment")
            => LET was == transactions[last'.id]
               IN  /\ accounts' = accounts
                   /\ IF was.PaymentStatus = "PENDING" /\ was.PaymentMethod # "CASH"
                      THEN /\ last'.result = "ok"
                           /\ transactions'[last'.id].PaymentStatus
                                = IF last'.code = was.PaymentCode
                                  THEN "SUCCESS" ELSE "FAILED"
                      ELSE /\ last'.result # "ok"
                           /\ transactions' = transactions ]_vars

\* C29: an update changes only the fields the request provides: a field
\* the request leaves at its zero value keeps its stored value, and the
\* balance is never changed.
C29_UpdateFrame ==
    [][ \A a \in AccountIDs, req \in FieldUpdateRequests :
            Repo_Update(a, req)
            => /\ accounts'[a].CurrentBalance = accounts[a].CurrentBalance
               /\ req.CreditLimit = 0
                    => accounts'[a].CreditLimit = accounts[a].CreditLimit
               /\ req.MonthlyDueDate = 0
                    => accounts'[a].MonthlyDueDate = accounts[a].MonthlyDueDate
               /\ req.InterestRate = 0
                    => accounts'[a].InterestRate = accounts[a].InterestRate
               /\ req.InterestType = ""
                    => accounts'[a].InterestType = accounts[a].InterestType
               /\ req.CreditType = ""
                    => accounts'[a].CreditType = accounts[a].CreditType
               /\ req.GracePeriod = 0
                    => accounts'[a].GracePeriod = accounts[a].GracePeriod
               /\ req.IsBlocked = FALSE
                    => accounts'[a].IsBlocked = accounts[a].IsBlocked ]_vars

\* C30: every installment a purchase creates is due on or after the day of
\* the purchase.
C30_NotCreatedPastDue ==
    [][ \A i \in 1..Len(NewInstallments) :
            NewInstallments[i].DueDate >= now ]_vars

====
